---- MODULE Spec2Model ----
(***************************************************************************)
(* Model of src/03-projection/script.js: the 'spotlights' system (light    *)
(* registry), the 'spotlight-texture' component (texture binding) and the  *)
(* 'receive-spotlight-texture' component (uniform publishing hooks).       *)
(*                                                                         *)
(* JavaScript values that may be undefined/null are modelled as sequences  *)
(* of length 0 (absent) or 1 (present).                                    *)
(***************************************************************************)
EXTENDS Integers, Sequences, FiniteSets, TLC

\* ------------------------------------------------------------------------
\* Universes (host objects the script works on)
\* ------------------------------------------------------------------------

\* undefined / null
None == <<>>
Some(x) == <<x>>

\* The three.js objects that can be attached to the scene graph.
SpotIds == {"s1", "s2", "s3"}
Objects == SpotIds \cup {"pl", "mesh"}

\* THREE.Light sets isLight; THREE.SpotLight sets isSpotLight.
isLight(o) == o \in SpotIds \cup {"pl"}
isSpotLight(o) == o \in SpotIds
Lights == {o \in Objects : isLight(o)}

\* Layer masks are sets of layer numbers (the bits that are set).
LayerMasks == {{0}, {1}}
CameraMasks == {{0}, {0, 1}}

\* Texture sources a binding can be pointed at.
Srcs == {"a", "b"}

\* schema default of spotlight-texture.intensity
DefaultIntensity == 10
Intensities == {2, DefaultIntensity}

\* Cameras handed to the hooks; sceneEl.camera is "main".
Cameras == {"main", "alt"}
SceneCamera == "main"

\* Shader objects handed to onBeforeCompile of the receiving surface.
Progs == {"p1", "p2"}
\* Shader objects handed to onBeforeCompile of a second receiving surface.
OtherProgs == {"q1"}
AllProgs == Progs \cup OtherProgs

\* Bound on the loads in flight per binding.
\* what an attribute can say about intensity: nothing, or a value
Configured == {None} \cup {Some(v) : v \in Intensities}

MaxPending == 2

\* Bound on the lines of a host chunk around the spotlight calls.
MaxChunkLines == 3

VARIABLES
    scene,          \* children of sceneEl.object3D, in traversal order
    visible,        \* object.visible
    layers,         \* object.layers.mask
    castShadow,     \* object.castShadow
    roll,           \* object's world orientation (quarter turns about the view axis)
    cameraLayers,   \* sceneEl.camera.layers.mask
    spotLights,     \* systems.spotlights.spotLights
    comp,           \* el.components['spotlight-texture'] of each spotlight entity
    pending,        \* loadTexture calls whose callback has not run yet
    shaderObject,   \* closure variable of receive-spotlight-texture.init
    uniforms,       \* shader.uniforms.{spotLightExs, spotLightTextures} of each shader object
    compiled,       \* history: the shader object most recently handed to onBeforeCompile
    otherShaderObject, \* closure variable of a second receive-spotlight-texture instance
    shaderChunk,    \* THREE.ShaderChunk.{lights_pars_begin, lights_fragment_begin, lights_lambert_vertex}
    patchPc,        \* the patch statement of the script that runs next
    frag,           \* one invocation of getSpotLightInfo: its inputs and its out parameter
    last,           \* history: the operation that produced this state
    obs             \* history: per binding, what happened since its source last changed

vars == <<scene, visible, layers, castShadow, roll, cameraLayers, spotLights,
          comp, pending, shaderObject, uniforms, compiled, last, obs,
          otherShaderObject, shaderChunk, patchPc, frag>>

sceneVars == <<scene, visible, layers, castShadow, roll, cameraLayers>>
bindVars == <<comp, pending, obs>>
hookVars == <<shaderObject, uniforms, compiled>>
gpuVars == <<shaderChunk, patchPc, frag>>

\* ------------------------------------------------------------------------
\* Helpers
\* ------------------------------------------------------------------------

Range(s) == {s[i] : i \in 1..Len(s)}

\* History record of an operation: its name, its target and its argument; rep
\* tells that a hook directly follows a hook on the same shader object and camera;
\* val is the intensity a binding operation was given, None when it gave none.
OpV(op, tgt, arg, val) == [op |-> op, tgt |-> tgt, arg |-> arg, rep |-> FALSE, val |-> val]
Op(op, tgt, arg) == OpV(op, tgt, arg, None)
HookOp(op, p, cam) ==
    [op |-> op, tgt |-> p, arg |-> cam,
     rep |-> last.op \in {"compile", "render"} /\ last.tgt = p /\ last.arg = cam,
     val |-> None]

RECURSIVE Filter(_, _)
Filter(s, keep) ==
    IF s = <<>> THEN <<>>
    ELSE IF Head(s) \in keep THEN <<Head(s)>> \o Filter(Tail(s), keep)
         ELSE Filter(Tail(s), keep)

IndexOf(s, x) == CHOOSE i \in 1..Len(s) : s[i] = x

\* ------------------------------------------------------------------------
\* spotlights system
\* ------------------------------------------------------------------------

\* Layers.test: (this.mask & layers.mask) !== 0
LayersTest(a, b) == a \cap b # {}

\* Object3D.traverseVisible over the scene's children: invisible objects are skipped.
TraverseVisible == Filter(scene, {o \in Objects : visible[o]})

\* variant of the traversal predicate: the layer test is left out
IsCollectedAnyLayer(o) == isLight(o) /\ isSpotLight(o)

\* the predicate of the traversal callback
IsCollected(o) ==
    isLight(o) /\ isSpotLight(o) /\ LayersTest(layers[o], cameraLayers)

\* the sort comparator: ( lightB.castShadow ? 1 : 0 ) - ( lightA.castShadow ? 1 : 0 )
Compare(lightA, lightB) ==
    (IF castShadow[lightB] THEN 1 ELSE 0) - (IF castShadow[lightA] THEN 1 ELSE 0)

\* variant of the sort: x goes in front of the elements it compares equal to
RECURSIVE InsertBeforeEqual(_, _)
InsertBeforeEqual(sorted, x) ==
    IF sorted = <<>> THEN <<x>>
    ELSE IF Compare(Head(sorted), x) < 0
         THEN <<Head(sorted)>> \o InsertBeforeEqual(Tail(sorted), x)
         ELSE <<x>> \o sorted

\* Array.prototype.sort with a comparator (stable since ES2019): insertion of x
\* behind every element that does not compare greater than x.
RECURSIVE Insert(_, _)
Insert(sorted, x) ==
    IF sorted = <<>> THEN <<x>>
    ELSE IF Compare(Head(sorted), x) <= 0 THEN <<Head(sorted)>> \o Insert(Tail(sorted), x)
         ELSE <<x>> \o sorted

RECURSIVE ArraySort(_)
ArraySort(s) ==
    IF s = <<>> THEN <<>>
    ELSE Insert(ArraySort(SubSeq(s, 1, Len(s) - 1)), s[Len(s)])

\* the value tick assigns to this.spotLights
CollectSpotLights ==
    ArraySort(Filter(TraverseVisible, {o \in Objects : IsCollected(o)}))

Tick ==
    /\ spotLights' = CollectSpotLights
    /\ last' = Op("tick", "", "")
    /\ UNCHANGED <<sceneVars, bindVars, hookVars, otherShaderObject, gpuVars>>

\* ------------------------------------------------------------------------
\* Scene mutations (host)
\* ------------------------------------------------------------------------

AddObject(o) ==
    /\ o \notin Range(scene)
    /\ scene' = Append(scene, o)
    /\ last' = Op("scene", "", "")
    /\ UNCHANGED <<visible, layers, castShadow, roll, cameraLayers, spotLights, bindVars, hookVars, otherShaderObject, gpuVars>>

RemoveObject(o) ==
    /\ o \in Range(scene)
    /\ scene' = Filter(scene, Objects \ {o})
    /\ last' = Op("scene", "", "")
    /\ UNCHANGED <<visible, layers, castShadow, roll, cameraLayers, spotLights, bindVars, hookVars, otherShaderObject, gpuVars>>

SetVisible(o, b) ==
    /\ visible[o] # b
    /\ visible' = [visible EXCEPT ![o] = b]
    /\ last' = Op("scene", "", "")
    /\ UNCHANGED <<scene, layers, castShadow, roll, cameraLayers, spotLights, bindVars, hookVars, otherShaderObject, gpuVars>>

SetLayers(o, m) ==
    /\ layers[o] # m
    /\ layers' = [layers EXCEPT ![o] = m]
    /\ last' = Op("scene", "", "")
    /\ UNCHANGED <<scene, visible, castShadow, roll, cameraLayers, spotLights, bindVars, hookVars, otherShaderObject, gpuVars>>

SetCastShadow(o, b) ==
    /\ castShadow[o] # b
    /\ castShadow' = [castShadow EXCEPT ![o] = b]
    /\ last' = Op("scene", "", "")
    /\ UNCHANGED <<scene, visible, layers, roll, cameraLayers, spotLights, bindVars, hookVars, otherShaderObject, gpuVars>>

SetCameraLayers(m) ==
    /\ cameraLayers # m
    /\ cameraLayers' = m
    /\ last' = Op("scene", "", "")
    /\ UNCHANGED <<scene, visible, layers, castShadow, roll, spotLights, bindVars, hookVars, otherShaderObject, gpuVars>>

\* the entity of o is rolled by a quarter turn (its matrixWorld changes)
Rotate(o) ==
    /\ roll' = [roll EXCEPT ![o] = (@ + 1) % 4]
    /\ last' = Op("scene", "", "")
    /\ UNCHANGED <<scene, visible, layers, castShadow, cameraLayers, spotLights, bindVars, hookVars, otherShaderObject, gpuVars>>

\* ------------------------------------------------------------------------
\* spotlight-texture component
\* ------------------------------------------------------------------------

\* A component instance: its data (src, intensity) and its texture field.
NewComponent(src, intensity) == [src |-> src, intensity |-> intensity, texture |-> None]

\* the texture the material system hands to the loadTexture callback for src
LoadedTexture(src) == [src |-> src, encoding |-> "linear"]

\* systems.renderer.applyColorCorrection(texture)
applyColorCorrection(texture) == [texture EXCEPT !.encoding = "sRGB"]

\* variant of updateSrc: the old texture is kept until the new one is loaded
updateSrcKeepingTexture(c) == c

\* updateSrc up to the loadTexture call: this.texture = undefined
updateSrc(c) == [c EXCEPT !.texture = None]

\* the callback handed to loadTexture
loadCallback(c, texture) == [c EXCEPT !.texture = Some(applyColorCorrection(texture))]

\* variant of the schema's number property: values below the default are raised to it
IntensityOfClamped(configured) ==
    IF configured = None \/ configured[1] < DefaultIntensity
    THEN DefaultIntensity ELSE configured[1]

\* schema { intensity: { type: 'number', default: 10.0 } }: data.intensity for
\* the configured value, None when the attribute does not give one
IntensityOf(configured) ==
    IF configured = None THEN DefaultIntensity ELSE configured[1]

\* variant of update: updateSrc is called on every update
SrcChangedAlways(c, oldSrc) == TRUE

\* update(oldData), c holding the new data: does it call updateSrc?
SrcChanged(c, oldSrc) == Some(c.src) # oldSrc

update(c, oldSrc) == IF SrcChanged(c, oldSrc) THEN updateSrc(c) ELSE c

PendingCount(el) == pending[el]["a"] + pending[el]["b"]

\* loadTexture(src, {src: src}, callback): one more load in flight
IssueLoad(el, c, oldSrc) ==
    IF SrcChanged(c, oldSrc)
    THEN /\ PendingCount(el) < MaxPending
         /\ pending' = [pending EXCEPT ![el][c.src] = @ + 1]
    ELSE pending' = pending

\* History of a binding since its source last changed.
\* cur tells what became of the load issued for the current source: "inflight",
\* "done", "failed", or "unknown" when a load of the same source issued earlier
\* was in flight beside it and one of the two ended.
ObsIdle == [fresh |-> FALSE, phase |-> "idle", first |-> "", second |-> "", cur |-> "none"]
ObsVoid == [fresh |-> FALSE, phase |-> "void", first |-> "", second |-> "", cur |-> "none"]

CurAfter(el, src, outcome) ==
    IF comp[el] # None /\ src = comp[el][1].src /\ obs[el].cur = "inflight"
    THEN IF pending[el][src] = 1 THEN outcome ELSE "unknown"
    ELSE obs[el].cur

ObsOnSet(el, src) ==
    IF PendingCount(el) = 0
    THEN [fresh |-> TRUE, phase |-> "one", first |-> src, second |-> "", cur |-> "inflight"]
    ELSE IF obs[el].phase = "one" /\ PendingCount(el) = 1 /\ src # obs[el].first
         THEN [fresh |-> TRUE, phase |-> "two", first |-> obs[el].first, second |-> src,
               cur |-> "inflight"]
         ELSE [ObsVoid EXCEPT !.fresh = TRUE, !.cur = "inflight"]

ObsOnDone(el, src) ==
    LET o == obs[el]
        next == IF o.phase = "two" /\ src = o.first
                THEN [o EXCEPT !.fresh = FALSE, !.phase = "firstDone"]
                ELSE IF o.phase = "two" /\ src = o.second
                THEN [o EXCEPT !.fresh = FALSE, !.phase = "secondDone"]
                ELSE IF o.phase = "firstDone" /\ src = o.second THEN [o EXCEPT !.phase = "both"]
                ELSE IF o.phase = "secondDone" /\ src = o.first THEN [o EXCEPT !.phase = "both"]
                ELSE ObsVoid
    IN  [next EXCEPT !.cur = CurAfter(el, src, "done")]

\* The component is attached to a spotlight entity: init, then update({}).
Attach(el, src, configured) ==
    /\ comp[el] = None
    /\ LET c == NewComponent(src, IntensityOf(configured)) IN
         /\ comp' = [comp EXCEPT ![el] = Some(update(c, None))]
         /\ IssueLoad(el, c, None)
    /\ obs' = [obs EXCEPT ![el] = ObsOnSet(el, src)]
    /\ last' = OpV("attach", el, src, configured)
    /\ UNCHANGED <<sceneVars, spotLights, hookVars, otherShaderObject, gpuVars>>

\* setAttribute on an attached component: the data changes, then update(oldData).
Update(el, src, intensity) ==
    /\ comp[el] # None
    /\ LET old == comp[el][1]
           c == [old EXCEPT !.src = src, !.intensity = IntensityOf(Some(intensity))]
       IN  /\ <<src, intensity>> # <<old.src, old.intensity>>
           /\ comp' = [comp EXCEPT ![el] = Some(update(c, Some(old.src)))]
           /\ IssueLoad(el, c, Some(old.src))
           /\ obs' = [obs EXCEPT ![el] = IF src # old.src THEN ObsOnSet(el, src) ELSE @]
           /\ last' = OpV(IF src # old.src THEN "setSrc" ELSE "setData", el, src,
                          Some(intensity))
    /\ UNCHANGED <<sceneVars, spotLights, hookVars, otherShaderObject, gpuVars>>

\* The load issued for src completes: the host runs the callback.
LoadComplete(el, src) ==
    /\ pending[el][src] > 0
    /\ comp[el] # None
    /\ pending' = [pending EXCEPT ![el][src] = @ - 1]
    /\ comp' = [comp EXCEPT ![el] = Some(loadCallback(comp[el][1], LoadedTexture(src)))]
    /\ obs' = [obs EXCEPT ![el] = ObsOnDone(el, src)]
    /\ last' = Op("loaded", el, src)
    /\ UNCHANGED <<sceneVars, spotLights, hookVars, otherShaderObject, gpuVars>>

\* The load issued for src fails: the callback is never run.
LoadFail(el, src) ==
    /\ pending[el][src] > 0
    /\ pending' = [pending EXCEPT ![el][src] = @ - 1]
    /\ obs' = [obs EXCEPT ![el] = [ObsVoid EXCEPT !.fresh = obs[el].fresh,
                                                   !.cur = CurAfter(el, src, "failed")]]
    /\ last' = Op("failed", el, src)
    /\ UNCHANGED <<sceneVars, spotLights, comp, hookVars, otherShaderObject, gpuVars>>

\* ------------------------------------------------------------------------
\* receive-spotlight-texture component
\* ------------------------------------------------------------------------

\* camera.matrixWorld of each camera, as a roll in quarter turns
CamRoll(cam) == IF cam = SceneCamera THEN 0 ELSE 1

\* one quarter turn about the view axis
RotZ(v) == <<0 - v[2], v[1], v[3]>>

\* Vector3.transformDirection by a matrix that rolls by k quarter turns
RECURSIVE transformDirection(_, _)
transformDirection(v, k) == IF k = 0 THEN v ELSE transformDirection(RotZ(v), k - 1)

\* matrixWorldInverse of a camera rolls the other way
InverseRoll(k) == (4 - k) % 4

\* spotLight.el.components['spotlight-texture']
spotLightTextureInfo(spotLight) == comp[spotLight]

\* the up vector of one entry: (0, 1, 0) to world space, then to camera space
UpVector(spotLight, cam) ==
    transformDirection(transformDirection(<<0, 1, 0>>, roll[spotLight]),
                       InverseRoll(CamRoll(cam)))

\* variant of the entry: the flag tells that the light carries a component
ExtraOfFlaggingComponent(spotLight, cam) ==
    LET info == spotLightTextureInfo(spotLight) IN
    [up |-> UpVector(spotLight, cam),
     hasTexture |-> info # None,
     intensity |-> IF info = None THEN None ELSE Some(info[1].intensity)]

\* the object pushed to extras for one spotlight
ExtraOf(spotLight, cam) ==
    LET info == spotLightTextureInfo(spotLight) IN
    [up |-> UpVector(spotLight, cam),
     hasTexture |-> IF info = None THEN FALSE ELSE info[1].texture # None,
     intensity |-> IF info = None THEN None ELSE Some(info[1].intensity)]

\* the value pushed to textures for one spotlight
TextureOf(spotLight) ==
    LET info == spotLightTextureInfo(spotLight) IN
    IF info = None THEN None ELSE info[1].texture

\* variant of the texture array: only lights that carry a component get a slot
BuildTexturesBoundOnly ==
    LET bound == Filter(spotLights, {l \in SpotIds : comp[l] # None})
    IN  [i \in 1..Len(bound) |-> TextureOf(bound[i])]

\* the two arrays updateUniforms builds from the registry
BuildExtras(cam) == [i \in 1..Len(spotLights) |-> ExtraOf(spotLights[i], cam)]
BuildTextures == [i \in 1..Len(spotLights) |-> TextureOf(spotLights[i])]

\* variant of updateUniforms: the arrays built are appended to the ones published before
NewUniformsAppending(p, cam) ==
    IF uniforms[p].spotLightExs = None
    THEN [spotLightExs |-> Some(BuildExtras(cam)), spotLightTextures |-> Some(BuildTextures)]
    ELSE [spotLightExs |-> Some(uniforms[p].spotLightExs[1] \o BuildExtras(cam)),
          spotLightTextures |-> Some(uniforms[p].spotLightTextures[1] \o BuildTextures)]

\* the uniforms updateUniforms assigns on the shader object
NewUniforms(p, cam) ==
    [spotLightExs |-> Some(BuildExtras(cam)), spotLightTextures |-> Some(BuildTextures)]

updateUniforms(p, cam) == uniforms' = [uniforms EXCEPT ![p] = NewUniforms(p, cam)]

\* variant of the compile hook: only the first shader object is recorded
RecordedShaderFirstOnly(p) == IF shaderObject = None THEN Some(p) ELSE shaderObject

\* shaderObject = shader
RecordedShader(p) == Some(p)

\* material.onBeforeCompile(shader)
onBeforeCompile(p) ==
    /\ updateUniforms(p, SceneCamera)
    /\ shaderObject' = RecordedShader(p)
    /\ compiled' = Some(p)
    /\ last' = HookOp("compile", p, SceneCamera)
    /\ UNCHANGED <<sceneVars, spotLights, bindVars, otherShaderObject, gpuVars>>

\* the guard of onBeforeRender: if(!shaderObject) { return; }
RenderReturnsEarly == shaderObject = None

\* material.onBeforeRender(renderer, scene, camera, ...)
onBeforeRender(cam) ==
    /\ IF RenderReturnsEarly
       THEN /\ UNCHANGED uniforms
            /\ last' = Op("render", "", cam)
       ELSE /\ updateUniforms(shaderObject[1], cam)
            /\ last' = HookOp("render", shaderObject[1], cam)
    /\ UNCHANGED <<sceneVars, spotLights, bindVars, shaderObject, compiled,
                   otherShaderObject, gpuVars>>

\* onBeforeCompile of a second receiving surface: the same hook over that
\* instance's own closure variable
otherOnBeforeCompile(p) ==
    /\ updateUniforms(p, SceneCamera)
    /\ otherShaderObject' = Some(p)
    /\ last' = HookOp("compile", p, SceneCamera)
    /\ UNCHANGED <<sceneVars, spotLights, bindVars, shaderObject, compiled, gpuVars>>

\* onBeforeRender of the second receiving surface
otherOnBeforeRender(cam) ==
    /\ IF otherShaderObject = None
       THEN /\ UNCHANGED uniforms
            /\ last' = Op("render", "", cam)
       ELSE /\ updateUniforms(otherShaderObject[1], cam)
            /\ last' = HookOp("render", otherShaderObject[1], cam)
    /\ UNCHANGED <<sceneVars, spotLights, bindVars, shaderObject, compiled,
                   otherShaderObject, gpuVars>>

\* ------------------------------------------------------------------------
\* three.js shader patching (top-level statements of the script)
\* ------------------------------------------------------------------------

\* the lines the patches look for, and what they put in their place
SpotLightStart == "#if NUM_SPOT_LIGHTS > 0"
EndIf == "#endif"
FragmentCall == "\t\tgetSpotLightInfo( spotLight, geometry, directLight );"
FragmentCallEx == "\t\tgetSpotLightInfo( spotLight, spotLightExs[UNROLLED_LOOP_INDEX], spotLightTextures[UNROLLED_LOOP_INDEX], geometry, directLight );"
LambertCall == "\t\tgetSpotLightInfo( spotLights[ i ], geometry, directLight );"
\* the template literal spliced into lights_pars_begin, one array element
SpotLightSectionEx == "#if NUM_SPOT_LIGHTS > 0 struct SpotLight struct SpotLightEx void getSpotLightInfo( spotLight, spotLightEx, spotLightTexture, geometry, light ) #endif"

\* lines of the host's chunks: the declaration inside the host's spotlight
\* section, and spellings of the marker lines that the patches do not match
HostDeclaration == "struct SpotLight void getSpotLightInfo( spotLight, geometry, light )"
OtherSpotLightStart == "#if ( NUM_SPOT_LIGHTS > 0 )"
OtherFragmentCall == "\t\tgetSpotLightInfo( spotLight, geometryPosition, directLight );"
OtherLambertCall == "\t\tgetSpotLightInfo( spotLights[ i ], geometryPosition, directLight );"

\* Array.prototype.indexOf(x, fromIndex) on 0-based positions: -1 when absent
indexOf(lines, x, fromIndex) ==
    LET from == IF fromIndex < 0
                THEN (IF Len(lines) + fromIndex < 0 THEN 0 ELSE Len(lines) + fromIndex)
                ELSE fromIndex
        hits == {i \in from..(Len(lines) - 1) : lines[i + 1] = x}
    IN  IF hits = {} THEN 0 - 1 ELSE CHOOSE i \in hits : \A j \in hits : i <= j

\* Array.prototype.splice(start, deleteCount, item)
splice(lines, start, deleteCount, item) ==
    LET n == Len(lines)
        from == IF start < 0 THEN (IF n + start < 0 THEN 0 ELSE n + start)
                ELSE IF start > n THEN n ELSE start
        count == IF deleteCount < 0 THEN 0
                 ELSE IF deleteCount > n - from THEN n - from ELSE deleteCount
    IN  SubSeq(lines, 1, from) \o <<item>> \o SubSeq(lines, from + count + 1, n)

\* the patch of lights_pars_begin
PatchParsBegin(lights_pars_begin_lines) ==
    LET spot_light_start_line == indexOf(lights_pars_begin_lines, SpotLightStart, 0)
        spot_light_end_line == indexOf(lights_pars_begin_lines, EndIf, spot_light_start_line)
    IN  splice(lights_pars_begin_lines, spot_light_start_line,
               spot_light_end_line - spot_light_start_line + 1, SpotLightSectionEx)

\* variant of the replacement line: the texture argument is left out
FragmentReplacementWithoutTexture == "\t\tgetSpotLightInfo( spotLight, spotLightExs[UNROLLED_LOOP_INDEX], geometry, directLight );"

\* the line the fragment patch writes
FragmentReplacement == FragmentCallEx

\* the patch of lights_fragment_begin
PatchFragmentBegin(lines) ==
    [i \in 1..Len(lines) |-> IF lines[i] = FragmentCall THEN FragmentReplacement ELSE lines[i]]

\* the patch of lights_lambert_vertex
PatchLambertVertex(lines) ==
    [i \in 1..Len(lines) |-> IF lines[i] = LambertCall THEN "" ELSE lines[i]]

\* THREE.ShaderChunk of the three.js build the script was written against
StockChunk ==
    [lights_pars_begin |-> <<"uniform vec3 ambientLightColor;", SpotLightStart,
                             HostDeclaration, EndIf>>,
     lights_fragment_begin |-> <<"#pragma unroll_loop_start", FragmentCall,
                                 "#pragma unroll_loop_end">>,
     lights_lambert_vertex |-> <<"#pragma unroll_loop_start", LambertCall,
                                 "#pragma unroll_loop_end">>]

\* all three patches applied, as after the script has loaded
Patched(chunk) ==
    [lights_pars_begin |-> PatchParsBegin(chunk.lights_pars_begin),
     lights_fragment_begin |-> PatchFragmentBegin(chunk.lights_fragment_begin),
     lights_lambert_vertex |-> PatchLambertVertex(chunk.lights_lambert_vertex)]

PatchLightsParsBegin ==
    /\ patchPc = "pars"
    /\ shaderChunk' = [shaderChunk EXCEPT !.lights_pars_begin = PatchParsBegin(@)]
    /\ patchPc' = "fragment"
    /\ UNCHANGED <<sceneVars, spotLights, bindVars, hookVars, otherShaderObject, last, frag>>

PatchLightsFragmentBegin ==
    /\ patchPc = "fragment"
    /\ shaderChunk' = [shaderChunk EXCEPT !.lights_fragment_begin = PatchFragmentBegin(@)]
    /\ patchPc' = "lambert"
    /\ UNCHANGED <<sceneVars, spotLights, bindVars, hookVars, otherShaderObject, last, frag>>

PatchLightsLambertVertex ==
    /\ patchPc = "lambert"
    /\ shaderChunk' = [shaderChunk EXCEPT !.lights_lambert_vertex = PatchLambertVertex(@)]
    /\ patchPc' = "done"
    /\ UNCHANGED <<sceneVars, spotLights, bindVars, hookVars, otherShaderObject, last, frag>>

\* ------------------------------------------------------------------------
\* getSpotLightInfo of the patched lights_pars_begin
\*
\* Unit vectors are the eight directions of one plane, 45 degrees apart
\* (ax = "p", k eighth turns from the first), and the two normals of that plane
\* (ax = "x", k = 0 or 4). Angles are counted in eighth turns, so PI/2 is 2.
\* NaNVec is normalize of the zero vector; a NaN scalar is None.
\* Colours have one channel; attenuations are counted in halves.
\* ------------------------------------------------------------------------

Dirs == {[ax |-> "p", k |-> k] : k \in 0..7} \cup {[ax |-> "x", k |-> k] : k \in {0, 4}}
NaNVec == [ax |-> "nan", k |-> 0]

\* acos( dot( a, b ) ) of unit vectors
acosDot(a, b) ==
    IF a = NaNVec \/ b = NaNVec THEN None
    ELSE IF a.ax = b.ax
         THEN LET d == (a.k - b.k) % 8 IN Some(IF d > 4 THEN 8 - d ELSE d)
         ELSE Some(2)

\* normalize( cross( a, b ) )
normalizeCross(a, b) ==
    IF a = NaNVec \/ b = NaNVec THEN NaNVec
    ELSE IF a.ax = "p" /\ b.ax = "p"
         THEN LET d == (b.k - a.k) % 8 IN
              IF d \in {0, 4} THEN NaNVec
              ELSE [ax |-> "x", k |-> IF d < 4 THEN 0 ELSE 4]
    ELSE IF a.ax = "x" /\ b.ax = "p"
         THEN [ax |-> "p", k |-> (b.k + (IF a.k = 0 THEN 2 ELSE 6)) % 8]
    ELSE IF a.ax = "p" /\ b.ax = "x"
         THEN [ax |-> "p", k |-> (a.k + (IF b.k = 0 THEN 6 ELSE 2)) % 8]
    ELSE NaNVec

\* the host's getSpotAttenuation( coneCos, penumbraCos, angleCos ), from the
\* cone's half angle and the angle off the axis: full on the axis, nothing
\* outside the cone, NaN for NaN
getSpotAttenuation(coneAngle, angle) ==
    IF angle = None THEN None
    ELSE IF angle[1] = 0 THEN Some(2)
    ELSE IF angle[1] >= coneAngle THEN Some(0)
    ELSE Some(1)

\* one coordinate of samplePoint, as <<numerator, denominator>>:
\* 0.5 + (angle - PI/2.0) / (2.0*coneAngle)
SampleCoordinate(angle, coneAngle) ==
    IF angle = None THEN None ELSE Some(<<coneAngle + angle[1] - 2, 2 * coneAngle>>)

Centered(coordinate) == coordinate # None /\ 2 * coordinate[1][1] = coordinate[1][2]

\* texture( spotLightTexture, samplePoint ).rgb of a texture whose centre texel
\* is tex.center and whose other texels are tex.other
texture(tex, samplePoint) ==
    IF Centered(samplePoint[1]) /\ Centered(samplePoint[2]) THEN tex.center ELSE tex.other

\* samplePoint as computed inside if(spotLightEx.hasTexture)
SamplePoint(in) ==
    LET left == normalizeCross(in.up, in.direction)
        leftAngle == acosDot(in.lightDirection, left)
        upAngle == acosDot(in.lightDirection, in.up)
    IN  <<SampleCoordinate(leftAngle, in.coneAngle), SampleCoordinate(upAngle, in.coneAngle)>>

\* variant of color: the texture sample tints the light's own colour
ColorTinted(in) ==
    IF in.hasTexture
    THEN in.color * texture(in.tex, SamplePoint(in)) * in.intensity
    ELSE in.color

\* vec3 color before the attenuations
Color(in) ==
    IF in.hasTexture
    THEN texture(in.tex, SamplePoint(in)) * in.intensity
    ELSE in.color

\* getSpotLightInfo( spotLight, spotLightEx, spotLightTexture, geometry, light );
\* samplePoint is kept beside the out parameter, it is written to no output
getSpotLightInfo(in) ==
    LET angle == acosDot(in.lightDirection, in.direction)
        spotAttenuation == getSpotAttenuation(in.coneAngle, angle)
    IN  IF spotAttenuation # None
        THEN LET lightColor == Color(in) * spotAttenuation[1] * in.distanceAttenuation IN
             [direction |-> in.lightDirection,
              color |-> lightColor,
              visible |-> lightColor # 0,
              samplePoint |-> IF in.hasTexture THEN Some(SamplePoint(in)) ELSE None]
        ELSE [direction |-> in.lightDirection, color |-> 0, visible |-> FALSE,
              samplePoint |-> None]

\* what one invocation is handed: normalize( lVector ), the light's uniforms,
\* the extended entry, the texture, and the host's distance attenuation
FragmentInputs ==
    [lightDirection : Dirs \cup {NaNVec},
     direction : Dirs,
     up : Dirs,
     coneAngle : {1, 2},
     color : {0, 3},
     distanceAttenuation : {0, 1, 2},
     hasTexture : BOOLEAN,
     intensity : Intensities,
     tex : {[center |-> 3, other |-> 1], [center |-> 1, other |-> 3]}]

\* the fragment stage runs getSpotLightInfo for one light and one point
Shade ==
    /\ frag.out = None
    /\ frag.in # None
    /\ frag' = [frag EXCEPT !.out = Some(getSpotLightInfo(frag.in[1]))]
    /\ UNCHANGED <<sceneVars, spotLights, bindVars, hookVars, otherShaderObject, last,
                   shaderChunk, patchPc>>

\* ------------------------------------------------------------------------
\* Initial state: a scene holding one mesh and no light, registry as constructed
\* (spotLights: [])
\* ------------------------------------------------------------------------

Init ==
    /\ scene = <<"mesh">>
    /\ visible = [o \in Objects |-> TRUE]
    /\ layers = [o \in Objects |-> {0}]
    /\ castShadow = [o \in Objects |-> FALSE]
    /\ roll = [o \in Objects |-> 0]
    /\ cameraLayers = {0}
    /\ spotLights = <<>>
    /\ comp = [el \in SpotIds |-> None]
    /\ pending = [el \in SpotIds |-> [s \in Srcs |-> 0]]
    /\ shaderObject = None
    /\ compiled = None
    /\ uniforms = [p \in AllProgs |-> [spotLightExs |-> None, spotLightTextures |-> None]]
    /\ otherShaderObject = None
    /\ shaderChunk = Patched(StockChunk)
    /\ patchPc = "done"
    /\ frag = [in |-> None, out |-> None]
    /\ last = Op("init", "", "")
    /\ obs = [el \in SpotIds |-> ObsIdle]

\* ------------------------------------------------------------------------
\* Registry specification: scene mutations and registry ticks
\* ------------------------------------------------------------------------

NextRegistry ==
    \/ \E o \in Lights : AddObject(o)
    \/ \E o \in Lights : RemoveObject(o)
    \/ \E o \in SpotIds, b \in BOOLEAN : SetVisible(o, b)
    \/ \E o \in SpotIds, m \in LayerMasks : SetLayers(o, m)
    \/ \E o \in SpotIds, b \in BOOLEAN : SetCastShadow(o, b)
    \/ \E m \in CameraMasks : SetCameraLayers(m)
    \/ Tick

SpecRegistry == Init /\ [][NextRegistry]_vars

\* ------------------------------------------------------------------------
\* Binding specification: two spotlights in the scene; components are attached,
\* their data changes and their loads complete or fail, between ticks and hooks
\* ------------------------------------------------------------------------

InitBinding ==
    /\ scene = <<"mesh", "s1", "s2">>
    /\ visible = [o \in Objects |-> TRUE]
    /\ layers = [o \in Objects |-> {0}]
    /\ castShadow = [o \in Objects |-> FALSE]
    /\ roll = [o \in Objects |-> 0]
    /\ cameraLayers = {0}
    /\ spotLights = <<>>
    /\ comp = [el \in SpotIds |-> None]
    /\ pending = [el \in SpotIds |-> [s \in Srcs |-> 0]]
    /\ shaderObject = None
    /\ compiled = None
    /\ uniforms = [p \in AllProgs |-> [spotLightExs |-> None, spotLightTextures |-> None]]
    /\ otherShaderObject = None
    /\ shaderChunk = Patched(StockChunk)
    /\ patchPc = "done"
    /\ frag = [in |-> None, out |-> None]
    /\ last = Op("init", "", "")
    /\ obs = [el \in SpotIds |-> ObsIdle]

BoundEls == {"s1"}

NextBinding ==
    \/ \E el \in BoundEls, s \in Srcs, v \in Configured : Attach(el, s, v)
    \/ \E el \in BoundEls, s \in Srcs, v \in Intensities : Update(el, s, v)
    \/ \E el \in BoundEls, s \in Srcs : LoadComplete(el, s)
    \/ \E el \in BoundEls, s \in Srcs : LoadFail(el, s)
    \/ Tick
    \/ \E p \in Progs : onBeforeCompile(p)
    \/ \E cam \in Cameras : onBeforeRender(cam)

SpecBinding == InitBinding /\ [][NextBinding]_vars

\* ------------------------------------------------------------------------
\* Shading specification: the scene changes between registry ticks and hooks;
\* s1 carries a component whose texture is loaded, s2 carries none
\* ------------------------------------------------------------------------

InitShading ==
    /\ scene = <<"mesh">>
    /\ visible = [o \in Objects |-> TRUE]
    /\ layers = [o \in Objects |-> {0}]
    /\ castShadow = [o \in Objects |-> FALSE]
    /\ roll = [o \in Objects |-> 0]
    /\ cameraLayers = {0}
    /\ spotLights = <<>>
    /\ comp = [el \in SpotIds |->
                 IF el = "s1"
                 THEN Some(loadCallback(NewComponent("a", 2), LoadedTexture("a")))
                 ELSE None]
    /\ pending = [el \in SpotIds |-> [s \in Srcs |-> 0]]
    /\ shaderObject = None
    /\ compiled = None
    /\ uniforms = [p \in AllProgs |-> [spotLightExs |-> None, spotLightTextures |-> None]]
    /\ otherShaderObject = None
    /\ shaderChunk = Patched(StockChunk)
    /\ patchPc = "done"
    /\ frag = [in |-> None, out |-> None]
    /\ last = Op("init", "", "")
    /\ obs = [el \in SpotIds |-> ObsIdle]

StagedLights == {"s1", "s2"}

NextShading ==
    \/ \E o \in StagedLights : AddObject(o)
    \/ \E o \in StagedLights : RemoveObject(o)
    \/ \E o \in StagedLights, b \in BOOLEAN : SetVisible(o, b)
    \/ \E o \in StagedLights, m \in LayerMasks : SetLayers(o, m)
    \/ \E o \in StagedLights, b \in BOOLEAN : SetCastShadow(o, b)
    \/ Rotate("s1")
    \/ Tick
    \/ onBeforeCompile("p1")
    \/ \E cam \in Cameras : onBeforeRender(cam)

SpecShading == InitShading /\ [][NextShading]_vars

\* ------------------------------------------------------------------------
\* Surfaces specification: two receiving surfaces share the registry and the
\* binding of s1, which starts with its texture loaded; s2 carries none
\* ------------------------------------------------------------------------

InitSurfaces ==
    /\ scene = <<"mesh", "s1", "s2">>
    /\ visible = [o \in Objects |-> TRUE]
    /\ layers = [o \in Objects |-> {0}]
    /\ castShadow = [o \in Objects |-> FALSE]
    /\ roll = [o \in Objects |-> 0]
    /\ cameraLayers = {0}
    /\ spotLights = <<>>
    /\ comp = [el \in SpotIds |->
                 IF el = "s1"
                 THEN Some(loadCallback(NewComponent("a", 2), LoadedTexture("a")))
                 ELSE None]
    /\ pending = [el \in SpotIds |-> [s \in Srcs |-> 0]]
    /\ shaderObject = None
    /\ compiled = None
    /\ uniforms = [p \in AllProgs |-> [spotLightExs |-> None, spotLightTextures |-> None]]
    /\ otherShaderObject = None
    /\ shaderChunk = Patched(StockChunk)
    /\ patchPc = "done"
    /\ frag = [in |-> None, out |-> None]
    /\ last = Op("init", "", "")
    /\ obs = [el \in SpotIds |-> ObsIdle]

NextSurfaces ==
    \/ \E s \in Srcs, v \in Intensities : Update("s1", s, v)
    \/ \E s \in Srcs : LoadComplete("s1", s)
    \/ Tick
    \/ onBeforeCompile("p1")
    \/ \E cam \in Cameras : onBeforeRender(cam)
    \/ \E p \in OtherProgs : otherOnBeforeCompile(p)
    \/ \E cam \in Cameras : otherOnBeforeRender(cam)

SpecSurfaces == InitSurfaces /\ [][NextSurfaces]_vars

\* ------------------------------------------------------------------------
\* Patch specification: the script's three patch statements run, in order, on
\* the chunks of the host; the host's chunks hold the marker lines or spell
\* them otherwise
\* ------------------------------------------------------------------------

SeqsUpTo(S, n) == UNION {[1..k -> S] : k \in 1..n}

\* what stands before and after the spotlight section of lights_pars_begin
Surroundings ==
    {<<>>, <<"uniform vec3 ambientLightColor;">>,
     <<"#if NUM_DIR_LIGHTS > 0", "struct DirectionalLight", EndIf>>}

HostParsBegin ==
    {pre \o <<start, HostDeclaration, EndIf>> \o post :
        pre \in Surroundings, post \in Surroundings,
        start \in {SpotLightStart, OtherSpotLightStart}}

HostFragmentBegin ==
    SeqsUpTo({"directLight.visible = true;", FragmentCall, OtherFragmentCall}, MaxChunkLines)

HostLambertVertex ==
    SeqsUpTo({"vLightFront += directLightColor_Diffuse;", LambertCall, OtherLambertCall},
             MaxChunkLines)

InitPatch ==
    /\ scene = <<"mesh">>
    /\ visible = [o \in Objects |-> TRUE]
    /\ layers = [o \in Objects |-> {0}]
    /\ castShadow = [o \in Objects |-> FALSE]
    /\ roll = [o \in Objects |-> 0]
    /\ cameraLayers = {0}
    /\ spotLights = <<>>
    /\ comp = [el \in SpotIds |-> None]
    /\ pending = [el \in SpotIds |-> [s \in Srcs |-> 0]]
    /\ shaderObject = None
    /\ compiled = None
    /\ uniforms = [p \in AllProgs |-> [spotLightExs |-> None, spotLightTextures |-> None]]
    /\ last = Op("init", "", "")
    /\ obs = [el \in SpotIds |-> ObsIdle]
    /\ otherShaderObject = None
    /\ shaderChunk \in [lights_pars_begin : HostParsBegin,
                        lights_fragment_begin : HostFragmentBegin,
                        lights_lambert_vertex : HostLambertVertex]
    /\ patchPc = "pars"
    /\ frag = [in |-> None, out |-> None]

NextPatch ==
    \/ PatchLightsParsBegin
    \/ PatchLightsFragmentBegin
    \/ PatchLightsLambertVertex

SpecPatch == InitPatch /\ [][NextPatch]_vars

\* ------------------------------------------------------------------------
\* Shader specification: getSpotLightInfo is run once on each input
\* ------------------------------------------------------------------------

InitShader ==
    /\ scene = <<"mesh">>
    /\ visible = [o \in Objects |-> TRUE]
    /\ layers = [o \in Objects |-> {0}]
    /\ castShadow = [o \in Objects |-> FALSE]
    /\ roll = [o \in Objects |-> 0]
    /\ cameraLayers = {0}
    /\ spotLights = <<>>
    /\ comp = [el \in SpotIds |-> None]
    /\ pending = [el \in SpotIds |-> [s \in Srcs |-> 0]]
    /\ shaderObject = None
    /\ compiled = None
    /\ uniforms = [p \in AllProgs |-> [spotLightExs |-> None, spotLightTextures |-> None]]
    /\ last = Op("init", "", "")
    /\ obs = [el \in SpotIds |-> ObsIdle]
    /\ otherShaderObject = None
    /\ shaderChunk = Patched(StockChunk)
    /\ patchPc = "done"
    /\ frag \in [in : {Some(i) : i \in FragmentInputs}, out : {None}]

NextShader == Shade

SpecShader == InitShader /\ [][NextShader]_vars

\* ------------------------------------------------------------------------
\* Properties
\* ------------------------------------------------------------------------

\* the state is the one right after a hook that published to a shader object
Published == last.op \in {"compile", "render"} /\ last.tgt # ""

PublishedExs == uniforms[last.tgt].spotLightExs[1]
PublishedTextures == uniforms[last.tgt].spotLightTextures[1]

\* the texture a binding resolves to when the load issued for src is applied
ResolvedFor(src) == Some([src |-> src, encoding |-> "sRGB"])

\* C1: when the source of a binding is set to S1 and then to S2 while the load
\* for S1 is still in flight, then once both loads have completed, in either
\* order, the resolved texture is the one loaded for S2.
C1_LastSourceWins ==
    \A el \in SpotIds :
        obs[el].phase = "both" =>
            /\ comp[el] # None
            /\ comp[el][1].texture = ResolvedFor(obs[el].second)

\* C2: a completed load is applied only when it was requested for the binding's
\* current source: a resolved texture is always the one loaded for the current
\* source, and the completion of a superseded load does not set the texture.
C2_OnlyCurrentSourceApplied ==
    \A el \in SpotIds :
        comp[el] # None /\ comp[el][1].texture # None =>
            comp[el][1].texture[1].src = comp[el][1].src

\* C3: right after an update that changes the source the resolved texture is
\* absent, and a build that runs after the change and before any load of that
\* binding has completed publishes hasTexture = false for its light.
C3_ClearedOnSourceChange ==
    /\ \A el \in SpotIds :
           last.op \in {"attach", "setSrc"} /\ last.tgt = el =>
               comp[el] # None /\ comp[el][1].texture = None
    /\ Published =>
           \A i \in 1..Len(spotLights) :
               obs[spotLights[i]].fresh => ~PublishedExs[i].hasTexture

\* C3 witness: a render hook publishes for a light whose source has just changed,
\* while an earlier publish to the other shader object still shows its old texture.
C3_Witness ==
    /\ last.op = "render" /\ last.tgt = "p1"
    /\ \E i \in 1..Len(spotLights) : obs[spotLights[i]].fresh
    /\ uniforms["p2"].spotLightExs # None
    /\ \E i \in 1..Len(uniforms["p2"].spotLightExs[1]) :
           uniforms["p2"].spotLightExs[1][i].hasTexture

\* C4: at every publish both published arrays have exactly as many entries as
\* the registry's current sequence, whatever was added to or removed from the
\* scene since.
C4_LengthsMatchRegistry ==
    Published =>
        /\ Len(PublishedExs) = Len(spotLights)
        /\ Len(PublishedTextures) = Len(spotLights)

\* C4 witness: a publish of two entries after a registry light left the scene.
C4_Witness ==
    /\ Published
    /\ Len(spotLights) = 2
    /\ \E i \in 1..Len(spotLights) : spotLights[i] \notin Range(scene)

\* a spotlight that a registry tick has to collect
Qualifies(o) ==
    /\ o \in Range(scene)
    /\ visible[o]
    /\ o \in SpotIds
    /\ layers[o] \cap cameraLayers # {}

\* C5: after a tick the registry holds exactly the visible spotlights whose
\* layers intersect the camera's, each once: no other light, no out-of-layer
\* light, nothing kept from earlier frames.
C5_RegistryIsVisibleSpotlights ==
    last.op = "tick" =>
        /\ Range(spotLights) = {o \in Objects : Qualifies(o)}
        /\ Len(spotLights) = Cardinality({o \in Objects : Qualifies(o)})

\* C5 witness: a tick over a scene holding a point light, an out-of-layer
\* spotlight, an invisible spotlight and a spotlight that qualifies.
C5_Witness ==
    /\ last.op = "tick"
    /\ {"pl", "s1", "s2", "s3"} \subseteq Range(scene)
    /\ \E o \in SpotIds : layers[o] \cap cameraLayers = {} /\ visible[o]
    /\ \E o \in SpotIds : ~visible[o]
    /\ Len(spotLights) = 1

\* C6: after a tick every shadow-casting spotlight precedes every other one, and
\* spotlights with the same castShadow value keep their traversal order.
C6_StablePartition ==
    last.op = "tick" =>
        \A i, j \in 1..Len(spotLights) :
            i < j =>
                /\ castShadow[spotLights[j]] => castShadow[spotLights[i]]
                /\ castShadow[spotLights[i]] = castShadow[spotLights[j]] =>
                       IndexOf(scene, spotLights[i]) < IndexOf(scene, spotLights[j])

\* C6 witness: a tick that moved a shadow-casting light in front of two others.
C6_Witness ==
    /\ last.op = "tick"
    /\ Len(spotLights) = 3
    /\ castShadow[spotLights[1]]
    /\ ~castShadow[spotLights[2]] /\ ~castShadow[spotLights[3]]
    /\ IndexOf(scene, spotLights[1]) > IndexOf(scene, spotLights[3])

\* The host renderer's packing of its spot-light slots for a render: the visible
\* lights that pass the layer test, shadow-casting ones first, each group in
\* traversal order.
RendererSlots ==
    LET lit == {o \in SpotIds : visible[o] /\ layers[o] \cap cameraLayers # {}}
    IN  Filter(scene, {o \in lit : castShadow[o]}) \o Filter(scene, {o \in lit : ~castShadow[o]})

\* C7: at every publish the entry at index i is built from the spotlight the
\* renderer packs into its slot i.
C7_EntriesFollowRendererSlots ==
    Published =>
        \A i \in 1..Len(PublishedExs) :
            i <= Len(RendererSlots) /\ spotLights[i] = RendererSlots[i]

\* C8: a registry light without a binding is published with hasTexture = false
\* and a defined intensity, and every slot without a resolved texture holds a
\* placeholder in the texture array instead of an absent value.
C8_DefaultsForUnboundLights ==
    Published =>
        \A i \in 1..Len(spotLights) :
            /\ comp[spotLights[i]] = None =>
                   ~PublishedExs[i].hasTexture /\ PublishedExs[i].intensity # None
            /\ PublishedTextures[i] # None

\* what a build from the registry's current sequence publishes, slot by slot
EntryMatchesBinding(i) ==
    LET l == spotLights[i] IN
    IF comp[l] = None
    THEN ~PublishedExs[i].hasTexture /\ PublishedTextures[i] = None
    ELSE /\ PublishedExs[i].hasTexture = (comp[l][1].texture # None)
         /\ PublishedExs[i].intensity = Some(comp[l][1].intensity)
         /\ PublishedTextures[i] = comp[l][1].texture

\* C9: while the compile hook has not run, the render hook publishes nothing and
\* leaves every shader object untouched; afterwards every render hook publishes
\* a build of the registry's current sequence to the most recently compiled
\* shader object.
C9_RenderHook ==
    /\ compiled = None =>
           /\ shaderObject = None
           /\ \A p \in Progs : uniforms[p].spotLightExs = None /\ uniforms[p].spotLightTextures = None
           /\ last.op = "render" => last.tgt = ""
    /\ last.op = "render" /\ compiled # None =>
           /\ last.tgt = compiled[1]
           /\ Len(PublishedExs) = Len(spotLights)
           /\ Len(PublishedTextures) = Len(spotLights)
           /\ \A i \in 1..Len(spotLights) : EntryMatchesBinding(i)

\* C9 witness: a render hook publishes two entries to the second shader object
\* compiled, after the first one had been compiled and published to.
C9_Witness ==
    /\ last.op = "render" /\ compiled = Some("p2") /\ last.tgt = "p2"
    /\ uniforms["p1"].spotLightExs # None
    /\ Len(spotLights) = 2
    /\ PublishedExs[1].hasTexture

\* C10: a hook that directly follows a hook on the same shader object and
\* camera leaves the published arrays as the first one left them.
C10_HooksIdempotent ==
    [][(Published /\ last'.op \in {"compile", "render"} /\ last'.rep) => uniforms' = uniforms]_vars

\* C11: when the load issued for the current source of a binding has failed,
\* the resolved texture is absent and every build publishes hasTexture = false
\* for its light, until the source changes again.
C11_FailedLoadLeavesNoTexture ==
    /\ \A el \in SpotIds :
           obs[el].cur = "failed" => comp[el] # None /\ comp[el][1].texture = None
    /\ Published =>
           \A i \in 1..Len(spotLights) :
               obs[spotLights[i]].cur = "failed" => ~PublishedExs[i].hasTexture

\* C12 has no formula: the order of tick and hooks within a frame is the host's.

\* C13: a binding attached without an intensity reads 10.0; a binding given the
\* intensity V reads V, unclamped; and a build publishes the binding's
\* intensity in the entry of its spotlight.
C13_IntensityRoundTrip ==
    /\ last.op \in {"attach", "setSrc", "setData"} =>
           comp[last.tgt][1].intensity =
               (IF last.val = None THEN DefaultIntensity ELSE last.val[1])
    /\ Published =>
           \A i \in 1..Len(spotLights) :
               comp[spotLights[i]] # None =>
                   PublishedExs[i].intensity = Some(comp[spotLights[i]][1].intensity)

\* C13 witness: a build has published the intensity 2 that the binding of its
\* first spotlight was given.
C13_Witness ==
    /\ Published /\ Len(spotLights) > 0
    /\ comp[spotLights[1]] # None
    /\ PublishedExs[1].intensity = Some(2)

\* C14: the colour before attenuation is the light's own colour when the flag
\* is false and the texture sample times the intensity when it is true; either
\* is multiplied by the angular and by the distance attenuation; the light is
\* visible exactly when the resulting colour is not zero.
C14_ColourSourceAndAttenuation ==
    frag.out # None =>
        LET in == frag.in[1]
            out == frag.out[1]
            spotAttenuation ==
                getSpotAttenuation(in.coneAngle, acosDot(in.lightDirection, in.direction))
            base == IF in.hasTexture
                    THEN texture(in.tex, out.samplePoint[1]) * in.intensity
                    ELSE in.color
        IN  /\ spotAttenuation # None =>
                   out.color = base * spotAttenuation[1] * in.distanceAttenuation
            /\ out.visible <=> out.color # 0

\* C14 witness: a textured light has been evaluated at a point inside the cone
\* and off its axis, and is visible.
C14_Witness ==
    /\ frag.out # None
    /\ frag.in[1].hasTexture
    /\ frag.in[1].lightDirection \notin {frag.in[1].direction, NaNVec}
    /\ frag.out[1].visible

\* C15: with a bound texture and intensity 2.0, a point on the light's axis is
\* sampled at (0.5, 0.5) and gets the colour of that texel times 2.0 times the
\* distance attenuation (the angular attenuation is full on the axis).
C15_OnAxisSamplesCentre ==
    frag.out # None =>
        LET in == frag.in[1]
            out == frag.out[1]
        IN  (in.hasTexture /\ in.intensity = 2 /\ in.lightDirection = in.direction) =>
                /\ Centered(out.samplePoint[1][1])
                /\ Centered(out.samplePoint[1][2])
                /\ out.color = in.tex.center * 2 * in.distanceAttenuation
                                  * getSpotAttenuation(in.coneAngle, Some(0))[1]

\* what a line declares or calls: the number of parameters of a declaration of
\* getSpotLightInfo, the number of arguments of a call of it, 0 for neither
DeclaredParams(line) ==
    IF line = HostDeclaration THEN 3 ELSE IF line = SpotLightSectionEx THEN 5 ELSE 0
CallArguments(line) ==
    IF line \in {FragmentCall, OtherFragmentCall, LambertCall, OtherLambertCall} THEN 3
    ELSE IF line = FragmentCallEx THEN 5
    ELSE IF line = FragmentReplacementWithoutTexture THEN 4
    ELSE 0

DeclarationLines == {i \in DOMAIN shaderChunk.lights_pars_begin :
                        DeclaredParams(shaderChunk.lights_pars_begin[i]) > 0}
DeclaredArities == {DeclaredParams(shaderChunk.lights_pars_begin[i]) : i \in DeclarationLines}
CallLines == {l \in Range(shaderChunk.lights_fragment_begin)
                     \cup Range(shaderChunk.lights_lambert_vertex) : CallArguments(l) > 0}
Opened == {i \in DOMAIN shaderChunk.lights_pars_begin :
              shaderChunk.lights_pars_begin[i]
                  \in {SpotLightStart, OtherSpotLightStart, "#if NUM_DIR_LIGHTS > 0"}}
Closed == {i \in DOMAIN shaderChunk.lights_pars_begin : shaderChunk.lights_pars_begin[i] = EndIf}

\* one declaration with five parameters, every fragment call the five-argument
\* line whose extra arguments are both indexed by UNROLLED_LOOP_INDEX, and no
\* call in the Lambert vertex chunk
ChunksConsistent ==
    /\ Cardinality(DeclarationLines) = 1 /\ DeclaredArities = {5}
    /\ \A l \in Range(shaderChunk.lights_fragment_begin) :
           CallArguments(l) > 0 => l = FragmentCallEx
    /\ \A l \in Range(shaderChunk.lights_lambert_vertex) : CallArguments(l) = 0

\* a marker line was spelled otherwise in the host's chunk (such a line
\* survives the patches)
MarkerMissed ==
    \/ OtherSpotLightStart \in Range(shaderChunk.lights_pars_begin)
    \/ OtherFragmentCall \in Range(shaderChunk.lights_fragment_begin)
    \/ OtherLambertCall \in Range(shaderChunk.lights_lambert_vertex)

\* what the host's shader compiler rejects: a second declaration of the
\* structs, a call no declaration takes, an unbalanced conditional
BuildFails ==
    \/ Cardinality(DeclarationLines) # 1
    \/ \E l \in CallLines : CallArguments(l) \notin DeclaredArities
    \/ Cardinality(Opened) # Cardinality(Closed)

\* C16: after the three patches the declaration and the call sites agree when
\* the host's chunks hold the marker lines, and the program fails to build
\* when a marker line was missed.
C16_PatchedChunksConsistent ==
    patchPc = "done" =>
        /\ ~MarkerMissed => ChunksConsistent
        /\ MarkerMissed => BuildFails

\* C16 witness: the patches have run on chunks that held the marker lines, a
\* fragment call was extended and a Lambert call was blanked.
C16_Witness ==
    /\ patchPc = "done"
    /\ ~MarkerMissed
    /\ FragmentCallEx \in Range(shaderChunk.lights_fragment_begin)
    /\ "" \in Range(shaderChunk.lights_lambert_vertex)
    /\ Len(shaderChunk.lights_pars_begin) > 1

\* C17: an update that leaves src as it was neither clears the resolved
\* texture nor issues a load.
C17_UnchangedSourceKeepsTexture ==
    [][last'.op = "setData" =>
           /\ comp'[last'.tgt][1].texture = comp[last'.tgt][1].texture
           /\ pending' = pending]_vars

\* C17 witness: the intensity alone was set on a binding that holds a texture.
C17_Witness ==
    /\ last.op = "setData"
    /\ comp[last.tgt][1].texture # None

\* C18: in every published pair, hasTexture[i] holds exactly when the texture
\* array holds a texture at i, and texture and intensity at i are those of the
\* binding of the registry's i-th spotlight.
C18_FlagsMatchTextures ==
    Published =>
        \A i \in 1..Len(spotLights) :
            LET info == comp[spotLights[i]] IN
            /\ PublishedExs[i].hasTexture <=> PublishedTextures[i] # None
            /\ info = None => PublishedTextures[i] = None
            /\ info # None =>
                   /\ PublishedTextures[i] = info[1].texture
                   /\ PublishedExs[i].intensity = Some(info[1].intensity)

\* C18 witness: a build has published a textured entry beside an untextured one.
C18_Witness ==
    /\ Published /\ Len(spotLights) = 2
    /\ \E i, j \in 1..2 : PublishedExs[i].hasTexture /\ ~PublishedExs[j].hasTexture

\* the arrays of a published pair that do not depend on the camera
SharedArrays(u) ==
    [hasTexture |-> [i \in DOMAIN u.spotLightExs[1] |-> u.spotLightExs[1][i].hasTexture],
     intensity |-> [i \in DOMAIN u.spotLightExs[1] |-> u.spotLightExs[1][i].intensity],
     textures |-> u.spotLightTextures[1]]

\* C19: a build changes neither the registry nor a binding, and a build that
\* directly follows a build, of whatever surface and camera, publishes the
\* same hasTexture, intensity and texture arrays.
C19_BuildsAgreeAcrossSurfaces ==
    [][(last'.op \in {"compile", "render"} /\ last'.tgt # "") =>
           /\ UNCHANGED <<spotLights, comp, pending>>
           /\ Published =>
                  SharedArrays(uniforms'[last'.tgt]) = SharedArrays(uniforms[last.tgt])]_vars

\* C19 witness: the second surface has published, through another camera, a
\* build that holds a textured entry and agrees with what the first surface holds.
C19_Witness ==
    /\ Published /\ last.tgt \in OtherProgs /\ last.arg # SceneCamera
    /\ shaderObject # None /\ uniforms[shaderObject[1]].spotLightExs # None
    /\ Len(spotLights) = 2
    /\ SharedArrays(uniforms[last.tgt]) = SharedArrays(uniforms[shaderObject[1]])
    /\ \E i \in 1..2 : PublishedExs[i].hasTexture

\* C10 witness: a hook has repeated a publish of a non-empty build.
C10_Witness ==
    /\ Published /\ last.rep
    /\ Len(PublishedExs) = 2
    /\ \E i \in 1..2 : PublishedExs[i].hasTexture

====
